---- MODULE Spec2Model ----
(***************************************************************************)
(* Model of tools/md_recv.py: the UDP market-data receive loop, its header *)
(* and payload decoding, the sequence-gap bookkeeping, the SIGINT handler  *)
(* and the final statistics report.                                        *)
(*                                                                         *)
(* A datagram is modelled by its length and by the values of the fields    *)
(* the code reads out of it.  Slices and struct.unpack are modelled by the *)
(* number of bytes they get: data[a:b] of an n-byte buffer has             *)
(* max(0, min(n,b) - a) bytes, and struct.unpack raises struct.error       *)
(* unless the slice has exactly calcsize(format) bytes.                    *)
(*                                                                         *)
(* The second part models tools/metrics_scraper.py: parse_metrics, the     *)
(* checks of display_key_metrics that can raise, and the polling loop of   *)
(* main().  The two tools are separate programs: Spec runs the receiver    *)
(* and ScraperSpec runs the scraper.                                       *)
(***************************************************************************)
EXTENDS Integers, Sequences, FiniteSets, TLC

VARIABLES
    pc,                 \* position of main(): loop, call, recv, proc, stats, done
    running,            \* module-level flag cleared by signal_handler
    messages_received,  \* local of main()
    expected_sequence,  \* local of main()
    gaps_detected,      \* local of main()
    data,               \* the datagram returned by recvfrom in this iteration
    out,                \* lines printed during the current loop iteration
    stats,              \* the statistics reports printed so far
    signals,            \* number of SIGINTs delivered so far
    recvd,              \* number of datagrams returned by recvfrom so far
    accepted,           \* number of datagrams of 24 bytes or more processed
    gap_reports,        \* number of "GAP:" lines printed so far
    in_flight,          \* signal_handler last ran with a datagram read and not
                        \* yet processed
    m_pc,               \* position of the scraper's main(): off, scrape, sleep,
                        \* exit, crash
    m_once,             \* args.once
    m_raw,              \* args.raw
    m_text,             \* what scrape_metrics last returned
    m_parsed,           \* what parse_metrics last did
    m_last,             \* how the last iteration of the polling loop ended
    m_scrapes,          \* number of calls of scrape_metrics so far
    m_failures,         \* number of calls of scrape_metrics that returned None
    m_sleeps            \* number of calls of time.sleep so far

scraperVars == <<m_pc, m_once, m_raw, m_text, m_parsed, m_last, m_scrapes,
                 m_failures, m_sleeps>>

vars == <<pc, running, messages_received, expected_sequence, gaps_detected,
          data, out, stats, signals, recvd, accepted, gap_reports,
          in_flight, scraperVars>>

-----------------------------------------------------------------------------
(* Bounds of the model *)

MaxSeq == 5          \* sequence numbers on the wire are 1..MaxSeq
MaxDatagrams == 4    \* datagrams delivered in one session
MaxSignals == 1      \* SIGINTs delivered in one session

(* Program constants *)

HEADER_SIZE == 24    \* len(data) < 24
BBO_UPDATE == 201
TRADE_UPDATE == 202
DEPTH_UPDATE == 203
BBO_GUARD == 56      \* len(data) >= 56
TRADE_GUARD == 49    \* len(data) >= 49
PRICE_SCALE == 10000 \* price/10000

(* The offset each payload decoder reads up to: the minimum total size *)
BBO_MIN_SIZE == 64   \* data[32:64]
TRADE_MIN_SIZE == 57 \* data[40:57]
DEPTH_MIN_SIZE == 34 \* data[32:34]

-----------------------------------------------------------------------------
(* Bytes, slices, struct and text *)

Min(a, b) == IF a < b THEN a ELSE b
Max(a, b) == IF a > b THEN a ELSE b

\* number of bytes of data[a:b] when len(data) = n
SliceLen(n, a, b) == Max(0, Min(n, b) - a)

\* struct.calcsize of the formats used, little-endian standard sizes
CalcSize(fmt) ==
    CASE fmt = "<LLQQ" -> 24
      [] fmt = "<QQQQ" -> 32
      [] fmt = "<Q"    -> 8
      [] fmt = "<QQB"  -> 17
      [] fmt = "<BB"   -> 2

\* struct.unpack(fmt, data[a:b]) succeeds iff the slice has calcsize bytes
UnpackOk(fmt, n, a, b) == SliceLen(n, a, b) = CalcSize(fmt)

\* bytes.rstrip(b'\x00')
RECURSIVE RStripNul(_)
RStripNul(s) ==
    IF s = <<>> THEN <<>>
    ELSE IF s[Len(s)] = 0 THEN RStripNul(SubSeq(s, 1, Len(s) - 1))
    ELSE s

\* bytes.decode('ascii') succeeds iff every byte is below 128
IsAscii(s) == \A i \in 1..Len(s) : s[i] < 128

\* the 8-byte symbol field sliced out of an n-byte buffer at offset a
SymbolSlice(d, a) == SubSeq(d.symbol, 1, SliceLen(d.len, a, a + 8))

\* f"{price/10000:.2f}": two decimals, rounded to nearest (the inputs of the
\* model avoid exact ties, whose rounding depends on the binary float)
Fmt2(v) ==
    LET cents == (v + (PRICE_SCALE \div 200)) \div (PRICE_SCALE \div 100)
    IN  <<cents \div 100, cents % 100>>

-----------------------------------------------------------------------------
(* Datagrams *)

SymAAPL == <<65, 65, 80, 76, 0, 0, 0, 0>>       \* b"AAPL\0\0\0\0"
SymBad  == <<65, 200, 66, 0, 0, 0, 0, 0>>       \* b"A\xc8B\0\0\0\0\0"
Symbols == {SymAAPL, SymBad}

Sides == {1, 2, 3}
Prices == {12345, 1500500}

\* lengths on both sides of every length test and slice bound of the code
ShortLens == {0, 23}
LongLens == {24, 33, 34, 48, 49, 50, 55, 56, 57, 63, 64}

Dg(n, t, s, sym, side, p, q) ==
    [len |-> n, msg_type |-> t, sequence |-> s, symbol |-> sym,
     side |-> side, price |-> p, ask_price |-> q]

NoData == Dg(0, 0, 0, <<>>, 0, 0, 0)

\* the value of a field that ends at offset b of an n-byte buffer: a field
\* the buffer does not reach has no value, and the model gives it one
Field(n, b, v) == IF n >= b THEN v ELSE 0

\* the bytes of an 8-byte symbol field at offset a that the buffer holds
SymField(n, a, sym) == SubSeq(sym, 1, SliceLen(n, a, a + 8))

\* Bytes the code never reads for a given type take one value.
ShortDatagrams == {Dg(n, 0, 0, <<>>, 0, 0, 0) : n \in ShortLens}
UnknownDatagrams ==
    {Dg(n, 0, s, <<>>, 0, 0, 0) : n \in LongLens, s \in 1..MaxSeq}
BBODatagrams ==
    {Dg(n, BBO_UPDATE, s, SymField(n, 24, sym), 0,
        Field(n, 40, p), Field(n, 56, q)) :
        n \in LongLens, s \in 1..MaxSeq, sym \in Symbols,
        p \in Prices, q \in Prices}
TradeDatagrams ==
    {Dg(n, TRADE_UPDATE, s, SymField(n, 32, sym), Field(n, 57, side),
        Field(n, 56, p), 0) :
        n \in LongLens, s \in 1..MaxSeq, sym \in Symbols,
        side \in Sides, p \in Prices}
DepthDatagrams ==
    {Dg(n, DEPTH_UPDATE, s, SymField(n, 24, sym), 0, 0, 0) :
        n \in LongLens, s \in 1..MaxSeq, sym \in Symbols}

Datagrams == ShortDatagrams \cup UnknownDatagrams \cup BBODatagrams
             \cup TradeDatagrams \cup DepthDatagrams

-----------------------------------------------------------------------------
(* The body of one loop iteration *)

\* variant: the length guard is off by one
HeaderTooShortOffByOne(n) == n < HEADER_SIZE - 1

\* if len(data) < 24: continue
HeaderTooShort(n) == n < HEADER_SIZE

\* variant: only a forward jump counts as a gap
IsGapForwardOnly(sequence, expected, received) ==
    sequence > expected /\ received > 0

\* variant: the first header is compared with the initial expectation too
IsGapFromStart(sequence, expected, received) == sequence # expected

\* if sequence != expected_sequence and messages_received > 0
IsGap(sequence, expected, received) == sequence # expected /\ received > 0

\* variant: the expectation advances by one instead of resynchronising
NextExpectedStale(sequence, expected) == expected + 1

\* expected_sequence = sequence + 1
NextExpected(sequence, expected) == sequence + 1

GapLine(expected, sequence) ==
    [k |-> "GAP", expected |-> expected, received |-> sequence]

ErrorLine(e) == [k |-> "Error", e |-> e]

\* variant: the bookkeeping is done for the known message types only
ObserveKnownOnly(st, d) ==
    IF d.msg_type \in {BBO_UPDATE, TRADE_UPDATE, DEPTH_UPDATE}
    THEN LET gap ==
                 IsGap(d.sequence, st.expected_sequence, st.messages_received)
         IN  [messages_received |-> st.messages_received + 1,
              expected_sequence |->
                  NextExpected(d.sequence, st.expected_sequence),
              gaps_detected |-> IF gap THEN st.gaps_detected + 1
                                ELSE st.gaps_detected,
              out |-> IF gap
                      THEN Append(st.out,
                                  GapLine(st.expected_sequence, d.sequence))
                      ELSE st.out]
    ELSE st

\* variant: a repeated or backward sequence is counted but not reported
ObserveQuietBackward(st, d) ==
    LET gap == IsGap(d.sequence, st.expected_sequence, st.messages_received)
    IN  [messages_received |-> st.messages_received + 1,
         expected_sequence |-> NextExpected(d.sequence, st.expected_sequence),
         gaps_detected     |-> IF gap THEN st.gaps_detected + 1
                               ELSE st.gaps_detected,
         out |-> IF gap /\ d.sequence > st.expected_sequence
                 THEN Append(st.out, GapLine(st.expected_sequence, d.sequence))
                 ELSE st.out]

\* lines 56-62: the gap check and the counter updates.  st is the record of
\* main()'s locals and of the lines printed so far in this iteration.
Observe(st, d) ==
    LET gap == IsGap(d.sequence, st.expected_sequence, st.messages_received)
    IN  [messages_received |-> st.messages_received + 1,
         expected_sequence |-> NextExpected(d.sequence, st.expected_sequence),
         gaps_detected     |-> IF gap THEN st.gaps_detected + 1
                               ELSE st.gaps_detected,
         out |-> IF gap
                 THEN Append(st.out, GapLine(st.expected_sequence, d.sequence))
                 ELSE st.out]

\* a payload result: the line printed, if any, and the exception raised, if any
Printed(line) == [lines |-> <<line>>, exc |-> "none"]
Silent == [lines |-> <<>>, exc |-> "none"]
Raised(e) == [lines |-> <<>>, exc |-> e]

\* lines 65-69
ParseBBO(d) ==
    IF d.len >= BBO_GUARD
    THEN IF ~IsAscii(RStripNul(SymbolSlice(d, 24)))
         THEN Raised("UnicodeDecodeError")
         ELSE IF ~UnpackOk("<QQQQ", d.len, 32, 64)
         THEN Raised("struct.error")
         ELSE Printed([k |-> "BBO",
                       symbol |-> RStripNul(SymbolSlice(d, 24)),
                       bid |-> Fmt2(d.price), ask |-> Fmt2(d.ask_price),
                       seq |-> d.sequence])
    ELSE Silent

\* "BUY" if side == 1 else "SELL"
SideStr(side) == IF side = 1 THEN "BUY" ELSE "SELL"

\* lines 71-77
ParseTrade(d) ==
    IF d.len >= TRADE_GUARD
    THEN IF ~UnpackOk("<Q", d.len, 24, 32)
         THEN Raised("struct.error")
         ELSE IF ~IsAscii(RStripNul(SymbolSlice(d, 32)))
         THEN Raised("UnicodeDecodeError")
         ELSE IF ~UnpackOk("<QQB", d.len, 40, 57)
         THEN Raised("struct.error")
         ELSE Printed([k |-> "TRADE",
                       symbol |-> RStripNul(SymbolSlice(d, 32)),
                       price |-> Fmt2(d.price), side |-> SideStr(d.side),
                       seq |-> d.sequence])
    ELSE Silent

\* lines 79-82
ParseDepth(d) ==
    IF ~IsAscii(RStripNul(SymbolSlice(d, 24)))
    THEN Raised("UnicodeDecodeError")
    ELSE IF ~UnpackOk("<BB", d.len, 32, 34)
    THEN Raised("struct.error")
    ELSE Printed([k |-> "DEPTH",
                  symbol |-> RStripNul(SymbolSlice(d, 24)),
                  seq |-> d.sequence])

\* lines 65-85: the if/elif chain on msg_type
ParsePayload(d) ==
    IF d.msg_type = BBO_UPDATE THEN ParseBBO(d)
    ELSE IF d.msg_type = TRADE_UPDATE THEN ParseTrade(d)
    ELSE IF d.msg_type = DEPTH_UPDATE THEN ParseDepth(d)
    ELSE Printed([k |-> "Unknown", msg_type |-> d.msg_type])

\* lines 50-91: what one iteration does with a datagram.  brk is TRUE when
\* the iteration leaves the loop through "except Exception: ... break".
Handle(st, d) ==
    IF HeaderTooShort(d.len)
    THEN [st |-> st, brk |-> FALSE]
    ELSE IF ~UnpackOk("<LLQQ", d.len, 0, 24)
    THEN [st |-> [st EXCEPT !.out = Append(@, ErrorLine("struct.error"))],
          brk |-> TRUE]
    ELSE LET ob == Observe(st, d)
             pl == ParsePayload(d)
         IN  IF pl.exc = "none"
             THEN [st |-> [ob EXCEPT !.out = @ \o pl.lines], brk |-> FALSE]
             ELSE [st |-> [ob EXCEPT !.out = Append(@, ErrorLine(pl.exc))],
                   brk |-> TRUE]

-----------------------------------------------------------------------------
(* metrics_scraper.py: text *)

MaxLines == 2        \* lines of one scraped text
MaxScrapes == 3      \* iterations of the polling loop

\* a line is a sequence of characters; the first position of c in s, or 0
FirstIndex(s, c) ==
    IF \E i \in 1..Len(s) : s[i] = c
    THEN CHOOSE i \in 1..Len(s) :
             s[i] = c /\ \A j \in 1..(i - 1) : s[j] # c
    ELSE 0

\* '{' in metric_name
Contains(s, c) == FirstIndex(s, c) # 0

RECURSIVE LStrip(_)
LStrip(s) ==
    IF s # <<>> /\ s[1] = " " THEN LStrip(Tail(s)) ELSE s

RECURSIVE RStrip(_)
RStrip(s) ==
    IF s # <<>> /\ s[Len(s)] = " " THEN RStrip(SubSeq(s, 1, Len(s) - 1))
    ELSE s

\* str.strip()
Strip(s) == LStrip(RStrip(s))

\* line.split(' ', 1)
SplitOnce(s) ==
    LET i == FirstIndex(s, " ")
    IN  IF i = 0 THEN <<s>>
        ELSE <<SubSeq(s, 1, i - 1), SubSeq(s, i + 1, Len(s))>>

\* metric_name.split('{')[0]
BeforeBrace(s) == SubSeq(s, 1, FirstIndex(s, "{") - 1)

Digits == {"0", "1", "2"}
DigitVal(c) == CASE c = "0" -> 0 [] c = "1" -> 1 [] c = "2" -> 2

\* float(s) raises ValueError unless s, stripped, is a number; over the
\* characters of the model a number is a non-empty string of digits
IsFloat(s) ==
    LET t == Strip(s)
    IN  t # <<>> /\ \A i \in 1..Len(t) : t[i] \in Digits

RECURSIVE DecimalOf(_)
DecimalOf(t) ==
    IF t = <<>> THEN 0
    ELSE 10 * DecimalOf(SubSeq(t, 1, Len(t) - 1)) + DigitVal(t[Len(t)])

\* float(s)
FloatOf(s) == DecimalOf(Strip(s))

-----------------------------------------------------------------------------
(* metrics_scraper.py: parse_metrics *)

\* the values of the metrics dictionary: a float or a dictionary of floats
FloatValue(v) == [t |-> "float", v |-> v, items |-> <<>>]
DictValue(items) == [t |-> "dict", v |-> 0, items |-> items]

EmptyMetrics == <<>>

\* d[k] = v
Put(d, k, v) == [x \in (DOMAIN d) \cup {k} |-> IF x = k THEN v ELSE d[x]]

Returned(metrics) == [metrics |-> metrics, exc |-> "none"]
Raises(metrics, e) == [metrics |-> metrics, exc |-> e]

\* lines 49-53: a labelled sample.  The assignment evaluates float() first,
\* so a non-numeric value is skipped (ValueError) after the base entry was
\* created; storing into a base entry that is a float raises TypeError.
ParseLabelled(metrics, name, value) ==
    LET base == BeforeBrace(name)
        m1 == IF base \notin DOMAIN metrics
              THEN Put(metrics, base, DictValue(<<>>))
              ELSE metrics
    IN  IF ~IsFloat(value) THEN Returned(m1)
        ELSE IF m1[base].t # "dict" THEN Raises(m1, "TypeError")
        ELSE Returned(Put(m1, base,
                 DictValue(Put(m1[base].items, name, FloatOf(value)))))

\* lines 38-57: one line of the text
ParseLine(metrics, rawline) ==
    LET line == Strip(rawline)
    IN  IF line = <<>> \/ line[1] = "#" THEN Returned(metrics)
        ELSE LET parts == SplitOnce(line)
             IN  IF Len(parts) # 2 THEN Returned(metrics)
                 ELSE IF Contains(parts[1], "{")
                 THEN ParseLabelled(metrics, parts[1], parts[2])
                 ELSE IF ~IsFloat(parts[2]) THEN Returned(metrics)
                 ELSE Returned(Put(metrics, parts[1],
                                   FloatValue(FloatOf(parts[2]))))

\* lines 37-59: the loop over the lines; an exception ends it
RECURSIVE ParseLines(_, _)
ParseLines(metrics, lines) ==
    IF lines = <<>> THEN Returned(metrics)
    ELSE LET r == ParseLine(metrics, Head(lines))
         IN  IF r.exc # "none" THEN r ELSE ParseLines(r.metrics, Tail(lines))

\* parse_metrics(metrics_text); the text is given as its lines
parse_metrics(text) == ParseLines(EmptyMetrics, text)

\* The metric names of the model: "a" stands for the names that
\* display_key_metrics formats with "," (rtes_orders_total, ...), "b" for
\* rtes_order_latency_seconds, which it tests with "in".
ScalarKeys == {<<"a">>}
LatencyKey == <<"b">>

\* display_key_metrics raises TypeError when a "," key holds a dictionary or
\* when the latency key holds a non-zero float
DisplayRaises(metrics) ==
    \/ \E k \in ScalarKeys \cap DOMAIN metrics : metrics[k].t = "dict"
    \/ /\ LatencyKey \in DOMAIN metrics
       /\ metrics[LatencyKey].t = "float"
       /\ metrics[LatencyKey].v # 0

\* what scrape_metrics returns: None, or response.text
NoResponse == [ok |-> FALSE, text |-> <<>>]
Response(text) == [ok |-> TRUE, text |-> text]

-----------------------------------------------------------------------------
(* The state machine *)

\* the number of "GAP:" lines among the lines printed by one iteration
GapCount(o) == Cardinality({i \in 1..Len(o) : o[i].k = "GAP"})

Locals ==
    [messages_received |-> messages_received,
     expected_sequence |-> expected_sequence,
     gaps_detected     |-> gaps_detected,
     out               |-> out]

\* the receiver's start: the globals and the locals of lines 13 and 42-44
ReceiverStart ==
    /\ pc = "loop"
    /\ running = TRUE
    /\ messages_received = 0
    /\ expected_sequence = 1
    /\ gaps_detected = 0
    /\ data = NoData
    /\ out = <<>>
    /\ stats = <<>>
    /\ signals = 0
    /\ recvd = 0
    /\ accepted = 0
    /\ gap_reports = 0
    /\ in_flight = FALSE

\* the scraper is not run
ScraperOff ==
    /\ m_pc = "off"
    /\ m_once = FALSE
    /\ m_raw = FALSE
    /\ m_text = NoResponse
    /\ m_parsed = Returned(EmptyMetrics)
    /\ m_last = "none"
    /\ m_scrapes = 0
    /\ m_failures = 0
    /\ m_sleeps = 0

Init == ReceiverStart /\ ScraperOff

\* signal_handler: running = False.  A SIGINT that arrives while recvfrom is
\* blocked interrupts the system call; the handler runs and, as it raises
\* nothing, the interpreter calls recvfrom again.
SignalHandler ==
    /\ pc # "done"
    /\ signals < MaxSignals
    /\ running' = FALSE
    /\ signals' = signals + 1
    /\ pc' = IF pc = "recv" THEN "call" ELSE pc
    /\ in_flight' = (pc = "proc")
    /\ UNCHANGED scraperVars
    /\ UNCHANGED <<messages_received, expected_sequence, gaps_detected,
                   data, out, stats, recvd, accepted, gap_reports>>

\* while running:
LoopCheck ==
    /\ pc = "loop"
    /\ IF running
       THEN pc' = "call" /\ out' = <<>> /\ data' = NoData
       ELSE pc' = "stats" /\ UNCHANGED <<out, data>>
    /\ UNCHANGED scraperVars
    /\ UNCHANGED <<running, messages_received, expected_sequence,
                   gaps_detected, stats, signals, recvd, accepted,
                   gap_reports, in_flight>>

\* sock.recvfrom(1024) is entered; the socket has no timeout, it blocks
StartRecv ==
    /\ pc = "call"
    /\ pc' = "recv"
    /\ UNCHANGED scraperVars
    /\ UNCHANGED <<running, messages_received, expected_sequence,
                   gaps_detected, data, out, stats, signals, recvd,
                   accepted, gap_reports, in_flight>>

\* recvfrom returns a datagram
Recv(d) ==
    /\ pc = "recv"
    /\ recvd < MaxDatagrams
    /\ data' = d
    /\ recvd' = recvd + 1
    /\ pc' = "proc"
    /\ UNCHANGED scraperVars
    /\ UNCHANGED <<running, messages_received, expected_sequence,
                   gaps_detected, out, stats, signals, accepted,
                   gap_reports, in_flight>>

\* variant: the transport failure exits without the statistics
RecvFailExit ==
    /\ pc = "recv"
    /\ out' = Append(out, ErrorLine("OSError"))
    /\ pc' = "done"
    /\ UNCHANGED scraperVars
    /\ UNCHANGED <<running, messages_received, expected_sequence,
                   gaps_detected, data, stats, signals, recvd, accepted,
                   gap_reports, in_flight>>

\* recvfrom raises OSError: except Exception: print, break
RecvFail ==
    /\ pc = "recv"
    /\ out' = Append(out, ErrorLine("OSError"))
    /\ pc' = "stats"
    /\ UNCHANGED scraperVars
    /\ UNCHANGED <<running, messages_received, expected_sequence,
                   gaps_detected, data, stats, signals, recvd, accepted,
                   gap_reports, in_flight>>

\* variant: the flag is tested again after recvfrom, and a datagram read
\* before the signal is dropped
ProcessUnlessStopped ==
    /\ pc = "proc"
    /\ IF running
       THEN LET r == Handle(Locals, data)
            IN  /\ messages_received' = r.st.messages_received
                /\ expected_sequence' = r.st.expected_sequence
                /\ gaps_detected' = r.st.gaps_detected
                /\ out' = r.st.out
                /\ pc' = IF r.brk THEN "stats" ELSE "loop"
                /\ gap_reports' = gap_reports + GapCount(r.st.out)
                /\ accepted' = IF data.len >= HEADER_SIZE THEN accepted + 1
                               ELSE accepted
       ELSE /\ pc' = "stats"
            /\ UNCHANGED <<messages_received, expected_sequence,
                           gaps_detected, out, gap_reports, accepted>>
    /\ UNCHANGED scraperVars
    /\ UNCHANGED <<running, data, stats, signals, recvd, in_flight>>

\* the rest of the iteration, lines 50-91
Process ==
    /\ pc = "proc"
    /\ LET r == Handle(Locals, data)
       IN  /\ messages_received' = r.st.messages_received
           /\ expected_sequence' = r.st.expected_sequence
           /\ gaps_detected' = r.st.gaps_detected
           /\ out' = r.st.out
           /\ pc' = IF r.brk THEN "stats" ELSE "loop"
           /\ gap_reports' = gap_reports + GapCount(r.st.out)
    /\ accepted' = IF data.len >= HEADER_SIZE THEN accepted + 1 ELSE accepted
    /\ UNCHANGED scraperVars
    /\ UNCHANGED <<running, data, stats, signals, recvd, in_flight>>

\* lines 96-100: the statistics report, sock.close()
PrintStats ==
    /\ pc = "stats"
    /\ stats' = Append(stats, [messages |-> messages_received,
                               gaps |-> gaps_detected])
    /\ pc' = "done"
    /\ UNCHANGED scraperVars
    /\ UNCHANGED <<running, messages_received, expected_sequence,
                   gaps_detected, data, out, signals, recvd, accepted,
                   gap_reports, in_flight>>

Next ==
    \/ SignalHandler
    \/ LoopCheck
    \/ StartRecv
    \/ \E d \in Datagrams : Recv(d)
    \/ RecvFail
    \/ Process
    \/ PrintStats

Spec == Init /\ [][Next]_vars

\* The interpreter keeps executing main(); the arrival of datagrams, of
\* signals and of transport failures is up to the environment.
FairSpec ==
    Spec /\ WF_vars(LoopCheck) /\ WF_vars(StartRecv) /\ WF_vars(Process)
         /\ WF_vars(PrintStats)

TypeOK ==
    /\ pc \in {"loop", "call", "recv", "proc", "stats", "done"}
    /\ running \in BOOLEAN
    /\ messages_received \in 0..MaxDatagrams
    /\ gaps_detected \in 0..MaxDatagrams
    /\ expected_sequence \in 1..(MaxSeq + 1)
    /\ Len(stats) <= 1

-----------------------------------------------------------------------------
(* metrics_scraper.py: the polling loop *)

ScrapedLines ==
    { <<>>,                                  \* ""
      <<"#", " ", "c">>,                     \* "# c"
      <<"a">>,                               \* "a"
      <<"a", " ", "1">>,                     \* "a 1"
      <<" ", "a", " ", "2", " ">>,           \* " a 2 "
      <<"a", " ", "x">>,                     \* "a x"
      <<"a", "{", "}", " ", "1">>,           \* "a{} 1"
      <<"a", "{", "}", " ", "x">>,           \* "a{} x"
      <<"b", " ", "0">>,                     \* "b 0"
      <<"c", "{", "}", " ", "2">> }          \* "c{} 2"

\* the texts of 1..MaxLines lines
Texts == UNION {[1..n -> ScrapedLines] : n \in 1..MaxLines}

ScrapeResults == {NoResponse} \cup {Response(t) : t \in Texts}

\* if metrics_text: None and the empty string are false
Truthy(r) == r.ok /\ r.text # << <<>> >>

recvVars == <<pc, running, messages_received, expected_sequence,
              gaps_detected, data, out, stats, signals, recvd, accepted,
              gap_reports, in_flight>>

ScraperInit ==
    /\ ReceiverStart
    /\ m_pc = "scrape"
    /\ m_once \in BOOLEAN
    /\ m_raw \in BOOLEAN
    /\ m_text = NoResponse
    /\ m_parsed = Returned(EmptyMetrics)
    /\ m_last = "none"
    /\ m_scrapes = 0
    /\ m_failures = 0
    /\ m_sleeps = 0

\* how lines 114-121 end for a scrape result: the outcome and what
\* parse_metrics did, if it was called
ScrapeOutcome(r, raw, parsed) ==
    IF ~Truthy(r) THEN [last |-> "failed", parsed |-> parsed]
    ELSE IF raw THEN [last |-> "raw", parsed |-> parsed]
    ELSE LET pr == parse_metrics(r.text)
         IN  IF pr.exc # "none" THEN [last |-> "TypeError", parsed |-> pr]
             ELSE IF DisplayRaises(pr.metrics)
             THEN [last |-> "TypeError", parsed |-> pr]
             ELSE [last |-> "displayed", parsed |-> pr]

\* variant: a failed scrape ends the loop
AfterScrapeStopOnFailure(last, once) ==
    IF last = "TypeError" THEN "crash"
    ELSE IF once \/ last = "failed" THEN "exit"
    ELSE "sleep"

\* where the loop goes after lines 114-121: an uncaught exception leaves
\* main(), --once breaks, otherwise time.sleep is next
AfterScrape(last, once) ==
    IF last = "TypeError" THEN "crash"
    ELSE IF once THEN "exit"
    ELSE "sleep"

\* lines 112-124: one iteration up to time.sleep
Iterate(r) ==
    /\ m_pc = "scrape"
    /\ m_scrapes < MaxScrapes
    /\ m_scrapes' = m_scrapes + 1
    /\ m_failures' = IF r.ok THEN m_failures ELSE m_failures + 1
    /\ m_text' = r
    /\ LET o == ScrapeOutcome(r, m_raw, m_parsed)
       IN  /\ m_last' = o.last
           /\ m_parsed' = o.parsed
           /\ m_pc' = AfterScrape(o.last, m_once)
    /\ UNCHANGED <<m_once, m_raw, m_sleeps>>
    /\ UNCHANGED recvVars

\* line 126: time.sleep(args.interval) returns
Sleep ==
    /\ m_pc = "sleep"
    /\ m_sleeps' = m_sleeps + 1
    /\ m_pc' = "scrape"
    /\ UNCHANGED <<m_once, m_raw, m_text, m_parsed, m_last, m_scrapes,
                   m_failures>>
    /\ UNCHANGED recvVars

\* lines 128-129: Ctrl-C raises KeyboardInterrupt where main() waits, in the
\* request of scrape_metrics (line 112, the call has been made) or in
\* time.sleep (line 126)
Interrupt ==
    /\ \/ /\ m_pc = "scrape"
          /\ m_scrapes < MaxScrapes
          /\ m_scrapes' = m_scrapes + 1
       \/ /\ m_pc = "sleep"
          /\ m_scrapes' = m_scrapes
    /\ m_last' = "interrupted"
    /\ m_pc' = "exit"
    /\ UNCHANGED <<m_once, m_raw, m_text, m_parsed, m_failures, m_sleeps>>
    /\ UNCHANGED recvVars

ScraperNext ==
    \/ \E r \in ScrapeResults : Iterate(r)
    \/ Sleep
    \/ Interrupt

ScraperSpec == ScraperInit /\ [][ScraperNext]_vars

-----------------------------------------------------------------------------
(* Vocabulary of the properties *)

\* the Process action is taken: one datagram is handled to the end
Processed == pc = "proc" /\ pc' # "proc"

\* the datagram being handled carries a readable header
HasHeader == data.len >= HEADER_SIZE

KnownTypes == {BBO_UPDATE, TRADE_UPDATE, DEPTH_UPDATE}

MinTotalSize(t) ==
    CASE t = BBO_UPDATE -> BBO_MIN_SIZE
      [] t = TRADE_UPDATE -> TRADE_MIN_SIZE
      [] t = DEPTH_UPDATE -> DEPTH_MIN_SIZE

LinesOf(o, kinds) == SelectSeq(o, LAMBDA l : l.k \in kinds)
GapLines(o) == LinesOf(o, {"GAP"})
PayloadLines(o) == LinesOf(o, {"BBO", "TRADE", "DEPTH"})
ErrorLines(o) == LinesOf(o, {"Error"})

-----------------------------------------------------------------------------
(* C1: handling a datagram, whatever its length, type and bytes, never     *)
(* leaves the receive loop: after it the loop is back at its head.         *)
C1_LoopContinues == [][Processed => pc' = "loop"]_vars

(* C2: a datagram with a header, of type 201, 202 or 203 and shorter than  *)
(* that type's minimum total size (64, 57, 34) is skipped: no payload line *)
(* is printed, no exception is raised and the loop continues.              *)
C2_TruncatedPayloadSkipped ==
    [][(Processed /\ HasHeader /\ data.msg_type \in KnownTypes
         /\ data.len < MinTotalSize(data.msg_type))
       => (pc' = "loop" /\ PayloadLines(out') = <<>>
           /\ ErrorLines(out') = <<>>)]_vars

(* C3: for an accepted header after the first, an in-order sequence leaves *)
(* gaps_detected alone and reports nothing, any other sequence adds one to *)
(* gaps_detected and reports one gap {expected, received}; both set        *)
(* expected_sequence to sequence + 1.                                      *)
C3_GapRule ==
    [][(Processed /\ HasHeader /\ messages_received > 0)
       => /\ expected_sequence' = data.sequence + 1
          /\ IF data.sequence = expected_sequence
             THEN gaps_detected' = gaps_detected /\ GapLines(out') = <<>>
             ELSE /\ gaps_detected' = gaps_detected + 1
                  /\ GapLines(out') =
                         <<[k |-> "GAP", expected |-> expected_sequence,
                            received |-> data.sequence]>>]_vars

\* after the sequences 1,2,3,5: one gap, reported as {expected 4, received 5}
C3_Witness ==
    /\ pc = "loop" /\ messages_received = 4 /\ gaps_detected = 1
    /\ expected_sequence = 6
    /\ GapLines(out) = <<[k |-> "GAP", expected |-> 4, received |-> 5]>>

(* C4: a repeated or backward sequence is a gap like a forward jump: it is *)
(* reported as {expected, received}, counted once, and expected_sequence   *)
(* becomes received + 1, which for a repeat of n is n + 1 again.           *)
C4_BackwardIsGap ==
    [][(Processed /\ HasHeader /\ messages_received > 0
         /\ data.sequence < expected_sequence)
       => /\ gaps_detected' = gaps_detected + 1
          /\ Len(GapLines(out')) = 1
          /\ GapLines(out')[1].expected = expected_sequence
          /\ GapLines(out')[1].received = data.sequence
          /\ expected_sequence' = data.sequence + 1
          /\ (data.sequence + 1 = expected_sequence
                => expected_sequence' = expected_sequence)]_vars

\* after the sequences 1,2,2: one gap {expected 3, received 2}, 3 expected
C4_Witness ==
    /\ pc = "loop" /\ messages_received = 3 /\ gaps_detected = 1
    /\ expected_sequence = 3
    /\ GapLines(out) = <<[k |-> "GAP", expected |-> 3, received |-> 2]>>

(* C5: the first accepted header of a session is never a gap, whatever its *)
(* sequence: gaps_detected stays 0, nothing is reported and                *)
(* expected_sequence becomes sequence + 1.                                 *)
C5_FirstHeaderNoGap ==
    [][(Processed /\ HasHeader /\ messages_received = 0)
       => /\ gaps_detected = 0 /\ gaps_detected' = 0
          /\ GapLines(out') = <<>>
          /\ expected_sequence' = data.sequence + 1]_vars

\* the first header carried sequence 3
C5_Witness ==
    /\ pc = "loop" /\ messages_received = 1 /\ data.sequence = 3
    /\ expected_sequence = 4 /\ gaps_detected = 0 /\ GapLines(out) = <<>>

(* C6: a datagram shorter than 24 bytes changes none of messages_received, *)
(* expected_sequence and gaps_detected, prints nothing, and the loop goes  *)
(* back to its head.                                                       *)
C6_ShortDatagramDropped ==
    [][(Processed /\ ~HasHeader)
       => /\ UNCHANGED <<messages_received, expected_sequence,
                         gaps_detected>>
          /\ out' = <<>>
          /\ pc' = "loop"]_vars

\* a 23-byte datagram was dropped after one header had been accepted
C6_Witness ==
    /\ pc = "loop" /\ recvd = 2 /\ data.len = 23
    /\ messages_received = 1 /\ out = <<>>

(* C7: every datagram of 24 bytes or more, whatever its type and whether   *)
(* or not its payload decodes, adds one to messages_received and sets      *)
(* expected_sequence to its sequence + 1; messages_received is always the  *)
(* number of such datagrams processed.                                     *)
C7_SequenceIndependentOfPayload ==
    /\ [](messages_received = accepted)
    /\ [][(Processed /\ HasHeader)
          => /\ messages_received' = messages_received + 1
             /\ expected_sequence' = data.sequence + 1]_vars

\* an unknown type and then a payload that failed to decode were both counted
C7_Witness ==
    /\ pc = "stats" /\ recvd = 2 /\ messages_received = 2
    /\ data.msg_type = TRADE_UPDATE /\ data.len = 50
    /\ expected_sequence = data.sequence + 1
    /\ ErrorLines(out) # <<>>

(* C8: a symbol field that is not ASCII text, in a fully sized message of  *)
(* type 201, 202 or 203, is recoverable: the loop continues.               *)
C8_InvalidSymbolRecoverable ==
    [][(Processed /\ HasHeader /\ data.msg_type \in KnownTypes
         /\ data.len >= MinTotalSize(data.msg_type)
         /\ ~IsAscii(data.symbol))
       => (pc' = "loop" /\ ErrorLines(out') = <<>>)]_vars

(* C9: once running is False the final statistics are eventually printed,  *)
(* whether or not another datagram arrives.                                *)
C9_ShutdownLive == (running = FALSE) ~> (Len(stats) = 1)

(* C10: once running is False no recvfrom is entered.                      *)
C10_NoRecvAfterStop ==
    [][~(running = FALSE /\ pc = "call" /\ pc' = "recv")]_vars

(* C11: a datagram of 24 bytes or more that recvfrom returned before the   *)
(* signal cleared running is still handled: its gap check and its updates  *)
(* of messages_received and expected_sequence are done before the loop is  *)
(* left, and the final statistics count it.                                *)
C11_InFlightCounted ==
    /\ [][(Processed /\ HasHeader /\ ~running)
          => /\ messages_received' = messages_received + 1
             /\ expected_sequence' = data.sequence + 1
             /\ gaps_detected' =
                    IF messages_received > 0
                       /\ data.sequence # expected_sequence
                    THEN gaps_detected + 1 ELSE gaps_detected]_vars
    /\ [](Len(stats) = 1
            => stats[1] = [messages |-> accepted, gaps |-> gaps_detected])

\* the signal arrived while the second datagram, a gap, was read and not yet
\* handled; the statistics count both
C11_Witness ==
    /\ pc = "done" /\ in_flight /\ ~running /\ recvd = 2
    /\ stats = <<[messages |-> 2, gaps |-> 1]>>

(* C12: however the loop ends (flag, exception in the body, transport      *)
(* failure), the statistics are then printed, exactly once, with the       *)
(* values messages_received and gaps_detected had when the loop ended.     *)
C12_StatsOnceAtEnd ==
    /\ [](/\ Len(stats) <= 1
          /\ (pc = "stats" => stats = <<>>)
          /\ (pc = "done"
                => stats = <<[messages |-> messages_received,
                              gaps |-> gaps_detected]>>))
    /\ [][(pc = "stats" \/ pc = "done")
            => (messages_received' = messages_received
                /\ gaps_detected' = gaps_detected)]_vars
    /\ [][(pc # "stats" /\ pc # "done" /\ pc' # pc /\ pc' # "loop"
            /\ pc' # "call" /\ pc' # "recv" /\ pc' # "proc")
            => pc' = "stats"]_vars
    /\ [](pc = "stats" => ENABLED PrintStats)

\* the loop ended through an exception of the body, after a gap
C12_Witness ==
    /\ pc = "done" /\ ErrorLines(out) # <<>> /\ running
    /\ stats = <<[messages |-> 2, gaps |-> 1]>>

(* C13: for a fully sized trade (type 202, 57 bytes or more) the side is   *)
(* printed as buy only for side 1 and as sell only for side 2; any other   *)
(* side is printed as neither, and the loop continues.                     *)
C13_SideReported ==
    [][(Processed /\ HasHeader /\ data.msg_type = TRADE_UPDATE
         /\ data.len >= TRADE_MIN_SIZE /\ IsAscii(data.symbol))
       => /\ pc' = "loop"
          /\ Len(LinesOf(out', {"TRADE"})) = 1
          /\ LET l == LinesOf(out', {"TRADE"})[1]
             IN  /\ (l.side = "BUY") <=> (data.side = 1)
                 /\ (l.side = "SELL") <=> (data.side = 2)]_vars

\* a datagram that is a decode error: no header, a known type shorter than
\* its minimum total size, or an unknown type
IsDecodeError(d) ==
    \/ d.len < HEADER_SIZE
    \/ d.msg_type \notin KnownTypes
    \/ d.len < MinTotalSize(d.msg_type)

(* C14: every datagram that is a truncated header, a truncated payload or  *)
(* an unknown type has exactly one error report printed while it is        *)
(* handled.                                                                *)
C14_ErrorReportedOnce ==
    [][(Processed /\ IsDecodeError(data))
       => Len(LinesOf(out', {"Error", "Unknown"})) = 1]_vars

\* the value, in units of 1/10000, of a price as it is displayed
Shown(p) == p[1] * PRICE_SCALE + p[2] * (PRICE_SCALE \div 100)

(* C15: every price of a printed BBO or trade line is displayed as its raw *)
(* value divided by 10000, with no digit lost.                             *)
C15_PriceDisplayedExactly ==
    [][Processed
       => \A i \in 1..Len(out') :
            /\ (out'[i].k = "TRADE" => Shown(out'[i].price) = data.price)
            /\ (out'[i].k = "BBO"
                  => /\ Shown(out'[i].bid) = data.price
                     /\ Shown(out'[i].ask) = data.ask_price)]_vars

(* C16: the number of gap reports printed always equals gaps_detected, and *)
(* the gap total of the final statistics equals the number of gap reports  *)
(* printed in the session.                                                 *)
C16_GapReportsMatchCounter ==
    /\ gap_reports = gaps_detected
    /\ (Len(stats) = 1 => stats[1].gaps = gap_reports)

\* two gaps were reported in the session and the statistics say two
C16_Witness ==
    /\ pc = "done" /\ gap_reports = 2 /\ stats # <<>> /\ stats[1].gaps = 2

(* C17: messages_received and gaps_detected never decrease; gaps_detected  *)
(* is 0 while messages_received is 0 and at most messages_received - 1     *)
(* afterwards; expected_sequence is the sequence of the last accepted      *)
(* header plus 1: it is set so by every accepted header and changed by     *)
(* nothing else.                                                           *)
C17_CounterInvariant ==
    /\ [](IF messages_received = 0 THEN gaps_detected = 0
          ELSE gaps_detected <= messages_received - 1)
    /\ [][/\ messages_received' >= messages_received
          /\ gaps_detected' >= gaps_detected
          /\ IF Processed /\ HasHeader
             THEN expected_sequence' = data.sequence + 1
             ELSE expected_sequence' = expected_sequence]_vars

\* every header after the first was a gap
C17_Witness ==
    /\ pc = "loop" /\ messages_received = 4 /\ gaps_detected = 3
    /\ expected_sequence = data.sequence + 1

(* C18: parse_metrics never raises, whatever the text: it returns a        *)
(* dictionary, also when a base name occurs with and without labels.       *)
C18_ParseMetricsTotal == m_parsed.exc = "none"

(* C19: a scrape that returns None never ends the polling loop: without    *)
(* --once the loop sleeps and then scrapes again; with --once there is one *)
(* scrape attempt, failed or not, and the program ends without sleeping.   *)
C19_PollingSurvivesFailure ==
    /\ [][(m_pc = "scrape" /\ m_failures' = m_failures + 1)
          => /\ m_last' = "failed"
             /\ m_pc' = IF m_once THEN "exit" ELSE "sleep"
             /\ m_sleeps' = m_sleeps]_vars
    /\ [][(m_pc = "sleep" /\ m_sleeps' = m_sleeps + 1)
          => m_pc' = "scrape"]_vars
    /\ [](m_once
            => /\ m_scrapes <= 1
               /\ m_sleeps = 0
               /\ (m_scrapes = 1 <=> (m_pc = "exit" \/ m_pc = "crash")))

\* continuous mode: two scrapes, both failed, and the loop is about to sleep
\* before the third
C19_Witness ==
    /\ ~m_once /\ m_scrapes = 2 /\ m_failures = 2 /\ m_sleeps = 1
    /\ m_pc = "sleep"

\* --once: the single scrape failed and the program ended without a sleep
C19_WitnessOnce ==
    /\ m_once /\ m_scrapes = 1 /\ m_failures = 1 /\ m_sleeps = 0
    /\ m_pc = "exit" /\ m_last = "failed"

====
